---- MODULE Spec2Model ----
(***************************************************************************)
(* dromos-authkit: the JWKS key cache (JWKSCache.GetKey / refresh), the    *)
(* request gate (AuthN, ValidateToken) that validates bearer tokens with   *)
(* it, and the policy middleware (RequireRole, RequireOrgRole,             *)
(* RequireTenant) that follows AuthN.  Time is counted in seconds.         *)
(***************************************************************************)
EXTENDS Integers, Sequences, FiniteSets, TLC

(* ------------------------------ bounds --------------------------------- *)
\* concurrent direct callers of GetKey on the shared cache
NumCallers == 2
\* GetKey calls each direct caller makes
MaxCalls == 1
\* clock advances in a behaviour
MaxTicks == 2
\* requests the gate serves in a behaviour
MaxRequests == 2

(* ------------------------- program constants --------------------------- *)
\* cacheTTL: 1 * time.Hour
CacheTTL == 3600
\* refresh's double check: 30 * time.Second
MinRefreshInterval == 30

(* ------------------------------ universe ------------------------------- *)
Callers == 1 .. NumCallers
\* process 0 is the goroutine serving the gate's request
Procs == 0 .. NumCallers
Kids == {"k1", "k2"}
\* "mw": the cache AuthN builds once; "vt": the cache a ValidateToken call builds
CacheIds == {"mw", "vt"}

\* the clock advances by one of these steps; their sums hit both sides of
\* the 30 s and the TTL comparisons
TickSteps == {1, MinRefreshInterval - 1, CacheTTL - 1}

(* --------------------- key-discovery endpoint -------------------------- *)
\* base64.RawURLEncoding.DecodeString on the strings the documents use:
\* the decoded bytes, or <<-1>> for an input that does not decode
B64Decode(s) ==
    CASE s = "AQAB" -> <<1, 0, 1>>
      [] s = "Aw" -> <<3>>
      [] s = "uQ" -> <<185>>
      [] s = "y8s" -> <<203, 203>>
      [] OTHER -> <<-1>>

RECURSIVE BytesToInt(_, _)
\* big.Int.SetBytes / the loop e = e<<8 + int(b): big-endian bytes to integer
BytesToInt(bytes, acc) ==
    IF bytes = << >> THEN acc
    ELSE BytesToInt(Tail(bytes), acc * 256 + Head(bytes))

NoKey == [N |-> -1, E |-> -1]

\* parseRSAPublicKey: the public key, or NoKey when n or e does not decode
parseRSAPublicKey(nStr, eStr) ==
    LET nBytes == B64Decode(nStr)
        eBytes == B64Decode(eStr)
    IN  IF nBytes = <<-1>> THEN NoKey
        ELSE IF eBytes = <<-1>> THEN NoKey
        ELSE [N |-> BytesToInt(nBytes, 0), E |-> BytesToInt(eBytes, 0)]

JWK(kty, kid, use, n, e) == [Kty |-> kty, Kid |-> kid, Use |-> use, N |-> n, E |-> e]

\* the key-set documents the provider publishes (the "keys" array)
DocA == << JWK("RSA", "k1", "sig", "uQ", "AQAB"),
           JWK("RSA", "k2", "enc", "y8s", "AQAB") >>
DocB == << JWK("RSA", "k2", "sig", "y8s", "AQAB"),
           JWK("EC", "k1", "sig", "uQ", "AQAB"),
           JWK("RSA", "k1", "sig", "u!", "AQAB") >>
\* a document without a usable entry: a non-RSA key, an exponent that does not decode
DocC == << JWK("EC", "k1", "sig", "uQ", "AQAB"),
           JWK("RSA", "k2", "sig", "y8s", "A!") >>
JWKSDocs == {DocA, DocB, DocC}
\* the order in which the provider publishes them
Rotation == <<DocA, DocB, DocC>>

PubK1 == parseRSAPublicKey("uQ", "AQAB")
PubK2 == parseRSAPublicKey("y8s", "AQAB")

RECURSIVE BuildKeys(_, _)
\* refresh's loop over jwks.Keys building newKeys
BuildKeys(entries, newKeys) ==
    IF entries = << >> THEN newKeys
    ELSE LET k == Head(entries)
             pubKey == parseRSAPublicKey(k.N, k.E)
         IN  IF k.Kty # "RSA" \/ k.Use # "sig" THEN BuildKeys(Tail(entries), newKeys)
             ELSE IF pubKey = NoKey THEN BuildKeys(Tail(entries), newKeys)
             ELSE BuildKeys(Tail(entries),
                            [x \in (DOMAIN newKeys) \cup {k.Kid} |->
                                IF x = k.Kid THEN pubKey ELSE newKeys[x]])

EmptyKeys == [x \in {} |-> NoKey]

\* the ways an HTTP GET of the key set fails: transport error, non-200, bad body
FetchErrors == {"transport", "status", "decode"}

(* ------------------------------- state --------------------------------- *)
VARIABLES
    now,        \* the wall clock
    ticks,      \* clock advances so far
    endpoint,   \* "up" | "down": the key-discovery endpoint
    published,  \* the document the endpoint serves
    keys,       \* JWKSCache.keys, per cache
    lastFetch,  \* JWKSCache.lastFetch, per cache
    writer,     \* JWKSCache.mu: holder of the exclusive lock, per cache
    readers,    \* JWKSCache.mu: holders of the read lock, per cache
    pc,         \* each goroutine's position
    kid,        \* GetKey's argument
    result,     \* GetKey's outcome: "none" | "Key" | "NotFound" | "FetchFailed"
    gotKey,     \* the key GetKey returned
    rfErr,      \* refresh's return value: "nil" or the fetch error
    calls,      \* GetKey calls made by each direct caller
    hist,       \* per call: what was true when the call began, what it did
    gate,       \* the gate's request in progress (process 0)
    cfg,        \* the Config AuthN and ValidateToken are given
    served,     \* requests the gate has served
    last401,    \* the error message of the latest 401 response of a served request
    keySet      \* the key set the latest fetching validation of a served request got

gateVars == <<gate, cfg, served, last401, keySet>>
vars == <<now, ticks, endpoint, published, keys, lastFetch, writer, readers,
          pc, kid, result, gotKey, rfErr, calls, hist, gate, cfg, served, last401, keySet>>

(* ------------------------ tokens and requests -------------------------- *)
\* a JSON value of a token: its type, and its text (a string), its elements
\* (a list) or its members (an object: key |-> value)
J(t, str, list, ks) == [t |-> t, s |-> str, l |-> list, k |-> ks]
\* an object without members; a roles object whose keys all carry grant g
NoMembers == [r \in {} |-> ""]
Grants(S, g) == [r \in S |-> g]
JStr(str) == J("string", str, << >>, NoMembers)
JNum == J("number", "", << >>, NoMembers)
JAbsent == J("absent", "", << >>, NoMembers)
JList(list) == J("list", "", list, NoMembers)
JObj(ks) == J("object", "", << >>, ks)

NoExp == [present |-> FALSE, t |-> 0]
ExpAt(t) == [present |-> TRUE, t |-> t]

\* the configuration: issuer, expected audience, skip-list
Issuer == "https://idp.example"
Audiences == {"", "proj1"}
SkipPaths == {"/health"}
Paths == {"/health", "/api"}
NoCfg == [IssuerURL |-> "", Audience |-> "", SkipPaths |-> {}]

\* signing algorithms a token header may declare; "XX" is one the library
\* does not know
Algs == {"RS256", "RS384", "HS256", "none", "XX"}
\* the algorithms whose method is a *jwt.SigningMethodRSA
RSAFamily == {"RS256", "RS384", "RS512"}

\* a token: header (alg, kid), the public key its signature verifies under
\* (NoKey: no provider key), and the payload's claims
Token(alg, k, signer, iss, exp, aud, sub, email, org, dom, roles) ==
    [alg |-> alg, kid |-> k, signer |-> signer, iss |-> iss, exp |-> exp, aud |-> aud,
     sub |-> sub, email |-> email, org |-> org, dom |-> dom, roles |-> roles]

\* far enough ahead that no clock advance of a behaviour reaches it
Far == (MaxTicks + 2) * CacheTTL

BaseToken(t) ==
    Token("RS256", JStr("k1"), PubK1, JStr(Issuer), ExpAt(t + Far), JStr("proj1"),
          JStr("u1"), JStr("u1@acme.example"), JStr("org1"), JStr("acme.example"),
          JObj(Grants({"admin", "editor"}, "org1:acme.example")))

NullToken ==
    Token("none", JAbsent, NoKey, JAbsent, NoExp, JAbsent,
          JAbsent, JAbsent, JAbsent, JAbsent, JAbsent)

\* tokens that differ from the base token in the header and signature
HeaderTokens(t) ==
    {[BaseToken(t) EXCEPT !.alg = a, !.kid = k, !.signer = sg] :
        a \in Algs, k \in {JStr("k1"), JStr("k2"), JAbsent}, sg \in {PubK1, NoKey}}

AudValues ==
    {JStr("proj1"), JStr("other"), JAbsent, JNum,
     JList(<<JStr("other"), JStr("proj1")>>), JList(<<JNum, JStr("other")>>)}

\* tokens that differ from the base token in one registered claim, or in the
\* audience and the expiry together
StandardTokens(t) ==
    {[BaseToken(t) EXCEPT !.iss = i] : i \in {JStr("https://evil.example"), JAbsent}}
        \cup {[BaseToken(t) EXCEPT !.exp = e, !.aud = a] :
                e \in {NoExp, ExpAt(t), ExpAt(t + 1)},
                a \in {JStr("proj1"), JStr("other")}}
        \cup {[BaseToken(t) EXCEPT !.aud = a] : a \in AudValues}

\* tokens that differ from the base token in the identity claims
IdentityTokens(t) ==
    {[BaseToken(t) EXCEPT !.sub = JAbsent, !.email = JAbsent, !.org = JAbsent,
                          !.dom = JAbsent, !.roles = JAbsent],
     [BaseToken(t) EXCEPT !.email = JNum, !.org = JAbsent, !.roles = JObj(NoMembers)],
     [BaseToken(t) EXCEPT !.sub = JNum, !.dom = JAbsent, !.roles = JList(<<JStr("admin")>>)],
     [BaseToken(t) EXCEPT !.aud = JList(<<JStr("other"), JStr("proj1")>>),
                          !.roles = JObj(Grants({"viewer"}, "org1:acme.example"))]}

Tokens(t) == HeaderTokens(t) \cup StandardTokens(t) \cup IdentityTokens(t)

\* an Authorization header is scheme + rest; a token string is "" (empty),
\* "garbage" (not a compact JWT) or "tok" (the request's token)
TokenStrs == {"", "garbage", "tok"}
NoHeader == [scheme |-> "", rest |-> ""]
Headers ==
    {NoHeader} \cup {[scheme |-> "Basic ", rest |-> "tok"]}
        \cup {[scheme |-> "Bearer ", rest |-> r] : r \in TokenStrs}

\* the Claims struct; set = FALSE stands for the nil pointer; Roles maps role
\* names to their grant details
Claims(sub, email, org, dom, roles, rolesNil) ==
    [set |-> TRUE, Sub |-> sub, Email |-> email, OrgID |-> org, OrgDomain |-> dom,
     Roles |-> roles, RolesNil |-> rolesNil]
NoClaims ==
    [set |-> FALSE, Sub |-> "", Email |-> "", OrgID |-> "", OrgDomain |-> "",
     Roles |-> NoMembers, RolesNil |-> TRUE]

\* what a route's handler reads through the accessors and the organization-role
\* helpers; orgRoles is the list it gives HasAnyOrgRole
NoView ==
    [UserID |-> "", Email |-> "", OrgID |-> "", orgRoles |-> << >>, HasAnyOrgRole |-> FALSE,
     IsOrgAdmin |-> FALSE, IsOrgOwner |-> FALSE, CanManageMembers |-> FALSE]

\* no validation has fetched a key set yet
NoKeySet == [known |-> FALSE, by |-> "none", at |-> 0, kids |-> {}]

\* a policy middleware of a route's chain: its constructor and its arguments;
\* tenantID is the argument the README gives RequireTenant
Policy(mw, roles, tenantID) == [mw |-> mw, roles |-> roles, tenantID |-> tenantID]
NoPolicy == Policy("", << >>, "")

\* the gate's request: the inputs, then what the handlers have done so far;
\* chain: the handlers after AuthN (policy middleware, then the route's handler),
\* pos: the next of them to run, policy and allowed: the latest policy decision
NoGate ==
    [entry |-> "none", path |-> "", header |-> NoHeader, query |-> "", tok |-> NullToken,
     tokenStr |-> "", status |-> 0, errMsg |-> "", reason |-> "", claims |-> NoClaims,
     bindCount |-> 0, nextCalled |-> FALSE, extractCalls |-> 0, parseCalls |-> 0,
     getKeyCalls |-> 0, validatedAt |-> 0, vtClaims |-> NoClaims, vtErr |-> "",
     chain |-> << >>, pos |-> 1, policy |-> NoPolicy, allowed |-> FALSE,
     handled |-> FALSE, asked |-> "", hasRole |-> FALSE, view |-> NoView]

(* --------------------------- JWKSCache --------------------------------- *)
\* the cache a goroutine works on: ValidateToken builds its own, every other
\* caller shares the one AuthN built
CacheOf(p) == IF p = 0 /\ gate.entry = "ValidateToken" THEN "vt" ELSE "mw"

\* lfAtCall, heldAtCall: the cache's lastFetch and whether it held the key id when
\* the call began; sawUp: the endpoint was up at some moment of the call;
\* fetched: the call started an HTTP GET; fetchErr: that GET failed;
\* peerFetchAt: when another caller last started an HTTP GET for the same key id
\* during this call (-1: none); refetched: this call started its own HTTP GET
\* less than 30 s after such a peer's
NoHist == [lfAtCall |-> 0, heldAtCall |-> FALSE, sawUp |-> FALSE, fetched |-> FALSE,
           fetchErr |-> FALSE, peerFetchAt |-> 0 - 1, refetched |-> FALSE]

\* NewJWKSCache: an empty mapping and the zero time
NewJWKSCache == [keys |-> EmptyKeys, lastFetch |-> 0]

\* goroutines inside a GetKey call for key id k on cache c
InGetKey(c, k) ==
    {q \in Procs : pc[q] \in {"gk_rlock", "gk_fast", "rf_lock", "rf_check", "rf_fetch",
                              "rf_stamp", "gk_rlock2", "gk_read2"}
                   /\ CacheOf(q) = c /\ kid[q] = k}

\* entry of GetKey(kid): records what the cache held when the call began
BeginGetKey(p, k, c, theKeys, theLastFetch) ==
    /\ pc' = [pc EXCEPT ![p] = "gk_rlock"]
    /\ kid' = [kid EXCEPT ![p] = k]
    /\ result' = [result EXCEPT ![p] = "none"]
    /\ gotKey' = [gotKey EXCEPT ![p] = NoKey]
    /\ rfErr' = [rfErr EXCEPT ![p] = "nil"]
    /\ hist' = [hist EXCEPT ![p] = [lfAtCall |-> theLastFetch,
                                    heldAtCall |-> k \in DOMAIN theKeys,
                                    sawUp |-> endpoint = "up",
                                    fetched |-> FALSE,
                                    fetchErr |-> FALSE,
                                    peerFetchAt |-> 0 - 1,
                                    refetched |-> FALSE]]

\* a direct caller (a keyfunc built by KeyFunc) calls GetKey(k) on the shared cache
CallGetKey(p) ==
    /\ p \in Callers
    /\ pc[p] = "idle"
    /\ calls[p] < MaxCalls
    /\ \E k \in Kids : BeginGetKey(p, k, "mw", keys["mw"], lastFetch["mw"])
    /\ calls' = [calls EXCEPT ![p] = @ + 1]
    /\ UNCHANGED <<now, ticks, endpoint, published, keys, lastFetch, writer, readers,
                   gateVars>>

\* mutant: the read lock does not wait for the exclusive lock
CanRLock_Always(theWriter) == TRUE

\* sync.RWMutex: RLock is granted while no goroutine holds the exclusive lock
CanRLock(theWriter) == theWriter = {}

\* mutant: refresh runs without mutual exclusion
CanLock_Always(theWriter, theReaders) == TRUE

\* sync.RWMutex: Lock is granted while no goroutine holds the lock in either mode
CanLock(theWriter, theReaders) == theWriter = {} /\ theReaders = {}

\* mutant: refresh returns without releasing the exclusive lock
Unlock_Leaked(theWriter, p) == theWriter

\* sync.RWMutex: Unlock by the holder p (refresh's deferred j.mu.Unlock())
Unlock(theWriter, p) == theWriter \ {p}

\* j.mu.RLock()
GetKeyRLock(p) ==
    /\ pc[p] = "gk_rlock"
    /\ CanRLock(writer[CacheOf(p)])
    /\ readers' = [readers EXCEPT ![CacheOf(p)] = @ \cup {p}]
    /\ pc' = [pc EXCEPT ![p] = "gk_fast"]
    /\ UNCHANGED <<now, ticks, endpoint, published, keys, lastFetch, writer, kid, result,
                   gotKey, rfErr, calls, hist, gate, cfg, served, last401, keySet>>

\* the fast path's test: the key is cached and the mapping is younger than the TTL
FastPathHit(theKeys, theLastFetch, k, t) ==
    k \in DOMAIN theKeys /\ t - theLastFetch < CacheTTL

\* the cached-key test under the read lock, then RUnlock
GetKeyFast(p) ==
    LET c == CacheOf(p) IN
    /\ pc[p] = "gk_fast"
    /\ readers' = [readers EXCEPT ![c] = @ \ {p}]
    /\ IF FastPathHit(keys[c], lastFetch[c], kid[p], now)
       THEN /\ result' = [result EXCEPT ![p] = "Key"]
            /\ gotKey' = [gotKey EXCEPT ![p] = keys[c][kid[p]]]
            /\ pc' = [pc EXCEPT ![p] = "gk_ret"]
       ELSE /\ pc' = [pc EXCEPT ![p] = "rf_lock"]
            /\ UNCHANGED <<result, gotKey>>
    /\ UNCHANGED <<now, ticks, endpoint, published, keys, lastFetch, writer, kid,
                   rfErr, calls, hist, gate, cfg, served, last401, keySet>>

\* refresh: j.mu.Lock()
RefreshLock(p) ==
    LET c == CacheOf(p) IN
    /\ pc[p] = "rf_lock"
    /\ CanLock(writer[c], readers[c])
    /\ writer' = [writer EXCEPT ![c] = {p}]
    /\ pc' = [pc EXCEPT ![p] = "rf_check"]
    /\ UNCHANGED <<now, ticks, endpoint, published, keys, lastFetch, readers, kid, result,
                   gotKey, rfErr, calls, hist, gate, cfg, served, last401, keySet>>

\* mutant: refresh without the double check
RecentlyFetched_Never(theLastFetch, t) == FALSE

\* mutant: the double check skips the fetch only at the instant of the last one
RecentlyFetched_Instant(theLastFetch, t) == t = theLastFetch

\* refresh's double check: no fetch when the last one is under 30 s old
RecentlyFetched(theLastFetch, t) == t - theLastFetch < MinRefreshInterval

\* mutant: the refresh error is kept where every caller sees it
AfterRefresh_SharedErr(p, err) ==
    IF err # "nil" \/ \E q \in Procs : rfErr[q] # "nil"
    THEN /\ result' = [result EXCEPT ![p] = "FetchFailed"]
         /\ pc' = [pc EXCEPT ![p] = "gk_ret"]
    ELSE /\ pc' = [pc EXCEPT ![p] = "gk_rlock2"]
         /\ UNCHANGED result

\* GetKey after refresh returned err: an error ends the call with FetchFailed,
\* nil goes on to the second RLock
AfterRefresh(p, err) ==
    IF err # "nil"
    THEN /\ result' = [result EXCEPT ![p] = "FetchFailed"]
         /\ pc' = [pc EXCEPT ![p] = "gk_ret"]
    ELSE /\ pc' = [pc EXCEPT ![p] = "gk_rlock2"]
         /\ UNCHANGED result

\* refresh under the exclusive lock: return at once, or start the HTTP GET
RefreshCheck(p) ==
    LET c == CacheOf(p) IN
    /\ pc[p] = "rf_check"
    /\ IF RecentlyFetched(lastFetch[c], now)
       THEN /\ rfErr' = [rfErr EXCEPT ![p] = "nil"]
            /\ writer' = [writer EXCEPT ![c] = Unlock(@, p)]
            /\ AfterRefresh(p, "nil")
            /\ UNCHANGED hist
       ELSE /\ pc' = [pc EXCEPT ![p] = "rf_fetch"]
            /\ hist' = [q \in Procs |->
                          IF q = p
                          THEN [hist[q] EXCEPT !.fetched = TRUE,
                                  !.refetched = hist[q].peerFetchAt >= 0
                                     /\ now - hist[q].peerFetchAt < MinRefreshInterval]
                          ELSE IF q \in InGetKey(c, kid[p])
                          THEN [hist[q] EXCEPT !.peerFetchAt = now]
                          ELSE hist[q]]
            /\ UNCHANGED <<rfErr, writer, result>>
    /\ UNCHANGED <<now, ticks, endpoint, published, keys, lastFetch, readers, kid,
                   gotKey, calls, gateVars>>

\* mutant: a failed refresh drops the mapping
AfterFailedFetch_Cleared(theKeys, theLastFetch) ==
    [keys |-> EmptyKeys, lastFetch |-> theLastFetch]

\* what a failed refresh leaves in the cache: the mapping and timestamp as they were
AfterFailedFetch(theKeys, theLastFetch) == [keys |-> theKeys, lastFetch |-> theLastFetch]

\* mutant: the response's keys are added to the mapping in place
AfterGoodFetch_Merge(doc, t) == [keys |-> BuildKeys(doc, keys["mw"]), lastFetch |-> t]

\* what a successful refresh stores: the new mapping and the time of the fetch
AfterGoodFetch(doc, t) == [keys |-> BuildKeys(doc, EmptyKeys), lastFetch |-> t]

\* the HTTP GET returns: an error ends refresh and releases the lock; a document
\* is decoded, newKeys is built from it and assigned to j.keys
RefreshFetch(p) ==
    LET c == CacheOf(p) IN
    /\ pc[p] = "rf_fetch"
    /\ IF endpoint = "down"
       THEN \E e \in FetchErrors :
              LET after == AfterFailedFetch(keys[c], lastFetch[c]) IN
              /\ rfErr' = [rfErr EXCEPT ![p] = e]
              /\ hist' = [hist EXCEPT ![p].fetchErr = TRUE]
              /\ keys' = [keys EXCEPT ![c] = after.keys]
              /\ lastFetch' = [lastFetch EXCEPT ![c] = after.lastFetch]
              /\ writer' = [writer EXCEPT ![c] = Unlock(@, p)]
              /\ AfterRefresh(p, e)
       ELSE /\ keys' = [keys EXCEPT ![c] = AfterGoodFetch(published, now).keys]
            /\ pc' = [pc EXCEPT ![p] = "rf_stamp"]
            /\ UNCHANGED <<rfErr, hist, lastFetch, writer, result>>
    /\ UNCHANGED <<now, ticks, endpoint, published, readers, kid, gotKey, calls, gateVars>>

\* j.lastFetch = time.Now(), then refresh returns nil and releases the lock
RefreshStamp(p) ==
    LET c == CacheOf(p) IN
    /\ pc[p] = "rf_stamp"
    /\ lastFetch' = [lastFetch EXCEPT ![c] = AfterGoodFetch(published, now).lastFetch]
    /\ rfErr' = [rfErr EXCEPT ![p] = "nil"]
    /\ writer' = [writer EXCEPT ![c] = Unlock(@, p)]
    /\ AfterRefresh(p, "nil")
    /\ UNCHANGED <<now, ticks, endpoint, published, keys, readers, kid, gotKey, calls,
                   hist, gateVars>>

\* the second j.mu.RLock()
GetKeyRLock2(p) ==
    /\ pc[p] = "gk_rlock2"
    /\ CanRLock(writer[CacheOf(p)])
    /\ readers' = [readers EXCEPT ![CacheOf(p)] = @ \cup {p}]
    /\ pc' = [pc EXCEPT ![p] = "gk_read2"]
    /\ UNCHANGED <<now, ticks, endpoint, published, keys, lastFetch, writer, kid, result,
                   gotKey, rfErr, calls, hist, gate, cfg, served, last401, keySet>>

\* the lookup after refresh, then the deferred RUnlock
GetKeyRead2(p) ==
    LET c == CacheOf(p) IN
    /\ pc[p] = "gk_read2"
    /\ readers' = [readers EXCEPT ![c] = @ \ {p}]
    /\ IF kid[p] \in DOMAIN keys[c]
       THEN /\ result' = [result EXCEPT ![p] = "Key"]
            /\ gotKey' = [gotKey EXCEPT ![p] = keys[c][kid[p]]]
       ELSE /\ result' = [result EXCEPT ![p] = "NotFound"]
            /\ UNCHANGED gotKey
    /\ pc' = [pc EXCEPT ![p] = "gk_ret"]
    /\ UNCHANGED <<now, ticks, endpoint, published, keys, lastFetch, writer, kid,
                   rfErr, calls, hist, gate, cfg, served, last401, keySet>>

\* a direct caller takes GetKey's result
ReturnGetKey(p) ==
    /\ p \in Callers
    /\ pc[p] = "gk_ret"
    /\ pc' = [pc EXCEPT ![p] = "idle"]
    /\ result' = [result EXCEPT ![p] = "none"]
    /\ gotKey' = [gotKey EXCEPT ![p] = NoKey]
    /\ rfErr' = [rfErr EXCEPT ![p] = "nil"]
    /\ hist' = [hist EXCEPT ![p] = NoHist]
    /\ UNCHANGED <<now, ticks, endpoint, published, keys, lastFetch, writer, readers, kid,
                   calls, gateVars>>

(* --------------------------- environment ------------------------------- *)
\* time passes
Tick ==
    /\ ticks < MaxTicks
    /\ \E d \in TickSteps : now' = now + d
    /\ ticks' = ticks + 1
    /\ UNCHANGED <<endpoint, published, keys, lastFetch, writer, readers, pc, kid, result,
                   gotKey, rfErr, calls, hist, gate, cfg, served, last401, keySet>>

\* the key-discovery endpoint goes down
EndpointFail ==
    /\ endpoint = "up"
    /\ endpoint' = "down"
    /\ UNCHANGED <<now, ticks, published, keys, lastFetch, writer, readers, pc, kid, result,
                   gotKey, rfErr, calls, hist, gate, cfg, served, last401, keySet>>

\* time passes while the gate's goroutine is about to read the clock (GetKey's
\* and refresh's time.Since, refresh's time.Now, the parser's validation time)
\* or before a request arrives
GateTick ==
    /\ pc[0] \in {"idle", "gk_fast", "rf_check", "rf_fetch", "rf_stamp", "gk_ret"}
    /\ ticks < MaxTicks
    /\ \E d \in TickSteps : now' = now + d
    /\ ticks' = ticks + 1
    /\ UNCHANGED <<endpoint, published, keys, lastFetch, writer, readers, pc, kid, result,
                   gotKey, rfErr, calls, hist, gate, cfg, served, last401, keySet>>

\* the endpoint recovers; every call in progress has now seen it up
EndpointRecover ==
    /\ endpoint = "down"
    /\ endpoint' = "up"
    /\ hist' = [p \in Procs |-> IF pc[p] \in {"idle", "gk_ret"} THEN hist[p]
                                ELSE [hist[p] EXCEPT !.sawUp = TRUE]]
    /\ UNCHANGED <<now, ticks, published, keys, lastFetch, writer, readers, pc, kid, result,
                   gotKey, rfErr, calls, gateVars>>

\* the provider rotates its keys: it publishes the next document
Rotate ==
    /\ \E i \in 1 .. Len(Rotation) - 1 :
          published = Rotation[i] /\ published' = Rotation[i + 1]
    /\ UNCHANGED <<now, ticks, endpoint, keys, lastFetch, writer, readers, pc, kid, result,
                   gotKey, rfErr, calls, hist, gate, cfg, served, last401, keySet>>

\* a cache whose latest refresh, of DocA, ended 30 s before the initial instant
WarmCache == [keys |-> BuildKeys(DocA, EmptyKeys), lastFetch |-> CacheTTL - MinRefreshInterval]

\* the initial state around a shared cache c0
InitCacheWith(c0) ==
    /\ now = CacheTTL
    /\ ticks = 0
    /\ endpoint = "up"
    /\ published = DocA
    /\ keys = [c \in CacheIds |-> IF c = "mw" THEN c0.keys ELSE NewJWKSCache.keys]
    /\ lastFetch = [c \in CacheIds |-> IF c = "mw" THEN c0.lastFetch
                                        ELSE NewJWKSCache.lastFetch]
    /\ writer = [c \in CacheIds |-> {}]
    /\ readers = [c \in CacheIds |-> {}]
    /\ pc = [p \in Procs |-> "idle"]
    /\ kid = [p \in Procs |-> "k1"]
    /\ result = [p \in Procs |-> "none"]
    /\ gotKey = [p \in Procs |-> NoKey]
    /\ rfErr = [p \in Procs |-> "nil"]
    /\ calls = [p \in Procs |-> 0]
    /\ hist = [p \in Procs |-> NoHist]

\* the initial state with the cache as NewJWKSCache returns it
InitCache == InitCacheWith(NewJWKSCache)

GetKeyStep(p) ==
    \/ GetKeyRLock(p)
    \/ GetKeyFast(p)
    \/ RefreshLock(p)
    \/ RefreshCheck(p)
    \/ RefreshFetch(p)
    \/ RefreshStamp(p)
    \/ GetKeyRLock2(p)
    \/ GetKeyRead2(p)

(* ------------------------------ the gate ------------------------------- *)
\* jwt.WithValidMethods([]string{"RS256"})
ValidMethods == {"RS256"}

\* mutant: the parser is given no valid-methods list
MethodAllowed_Any(alg) == TRUE

\* the parser's check of the declared algorithm against the valid methods
MethodAllowed(alg) == alg \in ValidMethods

\* the keyfunc's check: token.Method.(*jwt.SigningMethodRSA)
IsRSAMethod(alg) == alg \in RSAFamily

\* jwt.Parse up to the key lookup: the error that stops it before the keyfunc
\* calls GetKey, or "" when GetKey is to be called
PreKeyError(tokenStr, tok) ==
    IF tokenStr # "tok" THEN "MalformedToken"
    ELSE IF tok.alg = "XX" THEN "UnsupportedAlgorithm"
    ELSE IF ~MethodAllowed(tok.alg) THEN "UnsupportedAlgorithm"
    ELSE IF ~IsRSAMethod(tok.alg) THEN "UnsupportedAlgorithm"
    ELSE IF tok.kid.t # "string" THEN "MalformedToken"
    ELSE ""

\* mutant: any key returned by the keyfunc is taken as verifying the token
VerifySignature_Skipped(tok, key) == key # NoKey

\* the signature check: the token verifies under the key the keyfunc returned
VerifySignature(tok, key) == key # NoKey /\ tok.signer = key

\* the expiry check: a token with an exp claim is valid strictly before it
ExpiryValid(exp, t) == exp.present => t < exp.t

\* jwt.WithIssuer(cfg.IssuerURL): the iss claim is required and must be equal
IssuerValid(iss, expected) ==
    expected # "" => (iss.t = "string" /\ iss.s # "" /\ iss.s = expected)

\* jwt.Parse after the keyfunc returned: the error, or "" for a valid token
PostKeyError(tok, res, key, t, expectedIss) ==
    IF res = "NotFound" THEN "UnknownKey"
    ELSE IF res = "FetchFailed" THEN "KeyUnavailable"
    ELSE IF ~VerifySignature(tok, key) THEN "SignatureInvalid"
    ELSE IF ~ExpiryValid(tok.exp, t) THEN "Expired"
    ELSE IF ~IssuerValid(tok.iss, expectedIss) THEN "IssuerMismatch"
    ELSE ""

\* mutant: the query parameter is tried before the header
extractToken_QueryFirst(header, query) ==
    IF query # "" THEN query
    ELSE IF header.scheme = "Bearer " THEN header.rest
    ELSE ""

\* mutant: a Bearer header with an empty token falls back to the query parameter
extractToken_EmptyFallsBack(header, query) ==
    IF header.scheme = "Bearer " /\ header.rest # "" THEN header.rest
    ELSE IF query # "" THEN query
    ELSE ""

\* extractToken: the Authorization header's token when it starts with
\* "Bearer ", else the "token" query parameter
extractToken(header, query) ==
    IF (header.scheme # "" \/ header.rest # "") /\ header.scheme = "Bearer "
    THEN header.rest
    ELSE IF query # "" THEN query
    ELSE ""

\* validateAudience: TRUE for nil, FALSE for the error
validateAudience(aud, expectedAudience) ==
    CASE aud.t = "string" -> aud.s = expectedAudience
      [] aud.t = "list" ->
            \E i \in DOMAIN aud.l : aud.l[i].t = "string" /\ aud.l[i].s = expectedAudience
      [] OTHER -> FALSE

\* AuthN's audience step: performed only for a configured audience
AudienceAccepted(aud, expectedAudience) ==
    expectedAudience # "" => validateAudience(aud, expectedAudience)

\* getStringClaim: the claim when it is a string, else ""
getStringClaim(v) == IF v.t = "string" THEN v.s ELSE ""

\* the Claims literal and the role extraction of AuthN and ValidateToken
BuildClaims(tok) ==
    Claims(getStringClaim(tok.sub), getStringClaim(tok.email), getStringClaim(tok.org),
           "",
           IF tok.roles.t = "object" THEN tok.roles.k ELSE NoMembers,
           tok.roles.t # "object")

\* mutant: the skip-list is never consulted
SkipListed_Never(path, skipSet) == FALSE

\* the route is in cfg.SkipPaths
SkipListed(path, skipSet) == path \in skipSet

MsgMissing == "missing or invalid Authorization header"
MsgInvalid == "invalid or expired token"
MsgAudience == "token audience mismatch"

\* c.Next(): the chain's handler at position i runs, if there is one
AfterNext(chain, i) == IF i <= Len(chain) THEN "g_policy" ELSE "g_done"

\* a request arrives at the AuthN middleware
StartAuthN ==
    /\ pc[0] = "idle"
    /\ served < MaxRequests
    /\ \E path \in Paths, header \in Headers, query \in TokenStrs, tok \in Tokens(now) :
          /\ \/ tok = BaseToken(now)
             \/ (path = "/api" /\ header = [scheme |-> "Bearer ", rest |-> "tok"]
                  /\ query = "")
          /\ gate' = [NoGate EXCEPT !.entry = "AuthN", !.path = path, !.header = header,
                                    !.query = query, !.tok = tok]
    /\ pc' = [pc EXCEPT ![0] = "g_skip"]
    /\ UNCHANGED <<now, ticks, endpoint, published, keys, lastFetch, writer, readers, kid,
                   result, gotKey, rfErr, calls, hist, cfg, served, last401, keySet>>

\* the skip-list test: a skip-listed route goes straight to the next handler
AuthNSkip ==
    /\ pc[0] = "g_skip"
    /\ IF SkipListed(gate.path, cfg.SkipPaths)
       THEN /\ gate' = [gate EXCEPT !.nextCalled = TRUE, !.status = 200]
            /\ pc' = [pc EXCEPT ![0] = AfterNext(gate.chain, 1)]
       ELSE /\ pc' = [pc EXCEPT ![0] = "g_extract"]
            /\ UNCHANGED gate
    /\ UNCHANGED <<now, ticks, endpoint, published, keys, lastFetch, writer, readers, kid,
                   result, gotKey, rfErr, calls, hist, cfg, served, last401, keySet>>

\* extractToken, and the 401 for an empty token
AuthNExtract ==
    /\ pc[0] = "g_extract"
    /\ LET tokenStr == extractToken(gate.header, gate.query) IN
       IF tokenStr = ""
       THEN /\ gate' = [gate EXCEPT !.extractCalls = @ + 1, !.status = 401,
                                    !.errMsg = MsgMissing, !.reason = "MissingToken"]
            /\ UNCHANGED <<last401, keySet>>
            /\ pc' = [pc EXCEPT ![0] = "g_done"]
       ELSE /\ gate' = [gate EXCEPT !.extractCalls = @ + 1, !.tokenStr = tokenStr]
            /\ pc' = [pc EXCEPT ![0] = "g_parse"]
            /\ UNCHANGED <<last401, keySet>>
    /\ UNCHANGED <<now, ticks, endpoint, published, keys, lastFetch, writer, readers, kid,
                   result, gotKey, rfErr, calls, hist, cfg, served>>

\* ValidateToken(tokenStr, cfg) is called: it builds a cache of its own
StartValidateToken ==
    /\ pc[0] = "idle"
    /\ served < MaxRequests
    /\ \E tokenStr \in TokenStrs, tok \in Tokens(now) \cup {NullToken} :
          /\ (tok = NullToken) <=> (tokenStr # "tok")
          /\ gate' = [NoGate EXCEPT !.entry = "ValidateToken", !.tokenStr = tokenStr,
                                    !.tok = tok]
    /\ keys' = [keys EXCEPT !["vt"] = NewJWKSCache.keys]
    /\ lastFetch' = [lastFetch EXCEPT !["vt"] = NewJWKSCache.lastFetch]
    /\ pc' = [pc EXCEPT ![0] = "g_parse"]
    /\ UNCHANGED <<now, ticks, endpoint, published, writer, readers, kid,
                   result, gotKey, rfErr, calls, hist, cfg, served, last401, keySet>>

\* a validation failure: AuthN answers 401, ValidateToken returns the error
Reject(msg, why) ==
    IF gate.entry = "AuthN"
    THEN /\ gate' = [gate EXCEPT !.parseCalls = 1, !.status = 401, !.errMsg = msg,
                                 !.reason = why]
         /\ UNCHANGED <<last401, keySet>>
    ELSE /\ gate' = [gate EXCEPT !.parseCalls = 1, !.vtErr = "invalid token",
                                 !.reason = why]
         /\ UNCHANGED <<last401, keySet>>

\* jwt.Parse begins: the token is decoded, its algorithm checked, and the
\* keyfunc calls GetKey
ParseBegin ==
    LET c == CacheOf(0)
        err == PreKeyError(gate.tokenStr, gate.tok)
    IN
    /\ pc[0] = "g_parse"
    /\ IF err # ""
       THEN /\ Reject(MsgInvalid, err)
            /\ pc' = [pc EXCEPT ![0] = "g_done"]
            /\ UNCHANGED <<kid, result, gotKey, rfErr, hist>>
       ELSE /\ gate' = [gate EXCEPT !.parseCalls = 1, !.getKeyCalls = @ + 1]
            /\ BeginGetKey(0, gate.tok.kid.s, c, keys[c], lastFetch[c])
            /\ UNCHANGED <<last401, keySet>>
    /\ UNCHANGED <<now, ticks, endpoint, published, keys, lastFetch, writer, readers,
                   calls, cfg, served>>

\* jwt.Parse ends: the keyfunc's result, the signature, the registered claims
ParseEnd ==
    LET err == PostKeyError(gate.tok, result[0], gotKey[0], now, cfg.IssuerURL) IN
    /\ pc[0] = "gk_ret"
    /\ IF err # ""
       THEN /\ Reject(MsgInvalid, err)
            /\ pc' = [pc EXCEPT ![0] = "g_done"]
       ELSE /\ gate' = [gate EXCEPT !.validatedAt = now]
            /\ pc' = [pc EXCEPT ![0] = "g_valid"]
            /\ UNCHANGED <<last401, keySet>>
    /\ UNCHANGED <<now, ticks, endpoint, published, keys, lastFetch, writer, readers, kid,
                   result, gotKey, rfErr, calls, hist, cfg, served>>

\* AuthN after a valid parse: the audience, then the Claims, SetClaims, c.Next()
AuthNFinish ==
    /\ pc[0] = "g_valid"
    /\ gate.entry = "AuthN"
    /\ IF ~AudienceAccepted(gate.tok.aud, cfg.Audience)
       THEN /\ gate' = [gate EXCEPT !.status = 401, !.errMsg = MsgAudience,
                                    !.reason = "AudienceMismatch"]
            /\ pc' = [pc EXCEPT ![0] = "g_done"]
            /\ UNCHANGED <<last401, keySet>>
       ELSE /\ gate' = [gate EXCEPT !.claims = BuildClaims(gate.tok), !.bindCount = @ + 1,
                                    !.nextCalled = TRUE, !.status = 200]
            /\ pc' = [pc EXCEPT ![0] = AfterNext(gate.chain, 1)]
            /\ UNCHANGED <<last401, keySet>>
    /\ UNCHANGED <<now, ticks, endpoint, published, keys, lastFetch, writer, readers, kid,
                   result, gotKey, rfErr, calls, hist, cfg, served>>

\* ValidateToken after a valid parse: the Claims are built and returned; the
\* function has no audience step
ValidateTokenFinish ==
    /\ pc[0] = "g_valid"
    /\ gate.entry = "ValidateToken"
    /\ gate' = [gate EXCEPT !.vtClaims = BuildClaims(gate.tok)]
    /\ pc' = [pc EXCEPT ![0] = "g_done"]
    /\ UNCHANGED <<now, ticks, endpoint, published, keys, lastFetch, writer, readers, kid,
                   result, gotKey, rfErr, calls, hist, cfg, served, last401, keySet>>

\* the request completes; its context and Claims are discarded
FinishRequest ==
    /\ pc[0] = "g_done"
    /\ gate' = NoGate
    /\ served' = served + 1
    /\ pc' = [pc EXCEPT ![0] = "idle"]
    /\ result' = [result EXCEPT ![0] = "none"]
    /\ gotKey' = [gotKey EXCEPT ![0] = NoKey]
    /\ rfErr' = [rfErr EXCEPT ![0] = "nil"]
    /\ hist' = [hist EXCEPT ![0] = NoHist]
    /\ kid' = [kid EXCEPT ![0] = "k1"]
    /\ last401' = IF gate.status = 401 THEN gate.errMsg ELSE last401
    /\ keySet' = IF hist[0].fetched /\ ~hist[0].fetchErr
                 THEN [known |-> TRUE, by |-> gate.entry, at |-> lastFetch[CacheOf(0)],
                       kids |-> DOMAIN keys[CacheOf(0)]]
                 ELSE keySet
    /\ UNCHANGED <<now, ticks, endpoint, published, keys, lastFetch, writer, readers,
                   calls, cfg>>

(* ------------------- accessors and policy middleware ------------------- *)
\* mutant: a request without Claims is given a default organization
OrgID_Default(cl) == IF cl.set THEN cl.OrgID ELSE "default"

\* OrgID(c): the organization id of the bound Claims, "" when none are bound
OrgID(cl) == IF cl.set THEN cl.OrgID ELSE ""

\* UserID(c), Email(c)
UserID(cl) == IF cl.set THEN cl.Sub ELSE ""
Email(cl) == IF cl.set THEN cl.Email ELSE ""

\* mutant: a role counts only when its grant details are not null
HasRole_NeedsGrant(cl, role) ==
    IF ~cl.set \/ cl.RolesNil THEN FALSE
    ELSE role \in DOMAIN cl.Roles /\ cl.Roles[role] # "null"

\* HasRole(c, role): the role is a key of the bound Claims' Roles
HasRole(cl, role) ==
    IF ~cl.set \/ cl.RolesNil THEN FALSE
    ELSE role \in DOMAIN cl.Roles

RECURSIVE HasAnyRole(_, _)
\* mutant: only the first requested role is looked up
HasAnyRole_FirstOnly(cl, roles) == roles # << >> /\ HasRole(cl, Head(roles))

\* HasAnyRole(c, roles...): the loop over the requested roles
HasAnyRole(cl, roles) ==
    IF roles = << >> THEN FALSE
    ELSE IF HasRole(cl, Head(roles)) THEN TRUE
    ELSE HasAnyRole(cl, Tail(roles))

RECURSIVE JoinRoles(_)
\* mutant: the message names the first required role only
JoinRoles_First(roles) == IF roles = << >> THEN "" ELSE Head(roles)

\* strings.Join(roles, ", ")
JoinRoles(roles) ==
    IF roles = << >> THEN ""
    ELSE IF Len(roles) = 1 THEN Head(roles)
    ELSE Head(roles) \o ", " \o JoinRoles(Tail(roles))

\* formatRoles' loop from index i on
RECURSIVE FormatLoop(_, _, _)
FormatLoop(roles, i, acc) ==
    IF i > Len(roles) THEN acc
    ELSE FormatLoop(roles, i + 1, acc \o ", " \o roles[i])

\* mutant: the message names the first organization role only
formatRoles_First(roles) == IF Len(roles) = 0 THEN "" ELSE roles[1]

\* formatRoles(roles)
formatRoles(roles) ==
    IF Len(roles) = 0 THEN ""
    ELSE IF Len(roles) = 1 THEN roles[1]
    ELSE FormatLoop(roles, 2, roles[1])

\* the 403 messages (the source's dash is written "--" here)
MsgInsufficient(list) == "insufficient permissions -- requires one of: " \o list
MsgNoTenant == "no organization context -- user must belong to an organization"

\* organization role constants
OrgRoleOwner == "orgowner"
OrgRoleAdmin == "orgadmin"
OrgRoleMember == "orgmember"
OrgRoleViewer == "orgviewer"

\* the organization-role helpers; string(r) of an OrgRole is the role's name
HasAnyOrgRole(cl, roles) == HasAnyRole(cl, roles)
IsOrgAdmin(cl) == HasAnyRole(cl, <<OrgRoleOwner, OrgRoleAdmin>>)
IsOrgOwner(cl) == HasRole(cl, OrgRoleOwner)
CanManageMembers(cl) == IsOrgAdmin(cl)

\* the constructors of the policy middleware
RequireRole(roles) == Policy("RequireRole", roles, "")
RequireOrgRole(roles) == Policy("RequireOrgRole", roles, "")
RequireTenant(tenantID) == Policy("RequireTenant", << >>, tenantID)
\* the route's own handler, the last of a chain
RouteHandler == Policy("Handler", << >>, "")

\* the chains of the routes: the policy middleware applied after AuthN, then
\* the route's handler
Chains ==
    {<<RequireRole(rs), RouteHandler>> :
        rs \in {<<"admin">>, <<"editor", "admin">>, <<"admin", "editor">>,
                <<"admin", "admin">>, <<"publisher", "viewer">>, << >>}}
        \cup {<<RequireOrgRole(rs), RouteHandler>> :
                rs \in {<<OrgRoleOwner, OrgRoleAdmin>>, <<OrgRoleAdmin>>, << >>,
                        <<OrgRoleViewer, OrgRoleMember, OrgRoleOwner>>}}
        \cup {<<RequireTenant(id), RouteHandler>> : id \in {"", "org1"}}
        \cup {<<RequireTenant(""), RequireRole(<<"viewer", "admin">>), RouteHandler>>,
              <<RouteHandler>>}

\* roles a route's handler asks HasRole about, and lists it gives HasAnyOrgRole
AskedRoles == {"admin", "publisher", "viewer"}
AskedOrgRoles == {<<OrgRoleOwner>>, <<OrgRoleMember, OrgRoleAdmin>>}

\* tokens that differ from the base token in the organization and the roles,
\* and one whose signature is not the provider's
PolicyTokens(t) ==
    {BaseToken(t), [BaseToken(t) EXCEPT !.signer = NoKey]}
        \cup {[BaseToken(t) EXCEPT !.roles = r] :
                r \in {JAbsent, JObj(NoMembers), JObj(Grants({"admin"}, "null")),
                       JObj(Grants({"viewer"}, "org1:acme.example")),
                       JObj(Grants({OrgRoleAdmin, "editor"}, "org1:acme.example")),
                       JObj(Grants({OrgRoleOwner}, "org1:acme.example")),
                       JList(<<JStr("admin")>>)}}
        \cup {[BaseToken(t) EXCEPT !.org = o] :
                o \in {JAbsent, JStr(""), JStr("org2"), JNum}}
        \cup {[BaseToken(t) EXCEPT !.org = JAbsent, !.roles = JAbsent]}

\* a request arrives at a route whose chain is AuthN, policy middleware, handler
StartRoute ==
    /\ pc[0] = "idle"
    /\ served < MaxRequests
    /\ \E path \in Paths, header \in {NoHeader, [scheme |-> "Bearer ", rest |-> "tok"]},
          tok \in PolicyTokens(now), chain \in Chains :
          gate' = [NoGate EXCEPT !.entry = "AuthN", !.path = path, !.header = header,
                                 !.tok = tok, !.chain = chain]
    /\ pc' = [pc EXCEPT ![0] = "g_skip"]
    /\ UNCHANGED <<now, ticks, endpoint, published, keys, lastFetch, writer, readers, kid,
                   result, gotKey, rfErr, calls, hist, cfg, served, last401, keySet>>

\* a policy middleware's outcome: c.Next(), or the abort with 403 and a message
PolicyDecision(m, allow, msg) ==
    IF allow
    THEN /\ gate' = [gate EXCEPT !.policy = m, !.allowed = TRUE, !.pos = @ + 1]
         /\ pc' = [pc EXCEPT ![0] = AfterNext(gate.chain, gate.pos + 1)]
    ELSE /\ gate' = [gate EXCEPT !.policy = m, !.allowed = FALSE, !.status = 403,
                                 !.errMsg = msg, !.reason = "PolicyDenied"]
         /\ pc' = [pc EXCEPT ![0] = "g_done"]

\* the handler RequireRole(roles...) returned
RequireRoleHandler ==
    /\ pc[0] = "g_policy"
    /\ gate.chain[gate.pos].mw = "RequireRole"
    /\ LET m == gate.chain[gate.pos] IN
       PolicyDecision(m, HasAnyRole(gate.claims, m.roles),
                      MsgInsufficient(JoinRoles(m.roles)))
    /\ UNCHANGED <<now, ticks, endpoint, published, keys, lastFetch, writer, readers, kid,
                   result, gotKey, rfErr, calls, hist, cfg, served, last401, keySet>>

\* the handler RequireOrgRole(roles...) returned
RequireOrgRoleHandler ==
    /\ pc[0] = "g_policy"
    /\ gate.chain[gate.pos].mw = "RequireOrgRole"
    /\ LET m == gate.chain[gate.pos] IN
       PolicyDecision(m, HasAnyRole(gate.claims, m.roles),
                      MsgInsufficient(formatRoles(m.roles)))
    /\ UNCHANGED <<now, ticks, endpoint, published, keys, lastFetch, writer, readers, kid,
                   result, gotKey, rfErr, calls, hist, cfg, served, last401, keySet>>

\* mutant: every request has a tenant context
TenantAllowed_Always(orgID) == TRUE

\* RequireTenant's test of the organization id
TenantAllowed(orgID) == orgID # ""

\* the handler RequireTenant() returned; it is given no tenant id to compare
RequireTenantHandler ==
    /\ pc[0] = "g_policy"
    /\ gate.chain[gate.pos].mw = "RequireTenant"
    /\ LET m == gate.chain[gate.pos] IN
       PolicyDecision(m, TenantAllowed(OrgID(gate.claims)), MsgNoTenant)
    /\ UNCHANGED <<now, ticks, endpoint, published, keys, lastFetch, writer, readers, kid,
                   result, gotKey, rfErr, calls, hist, cfg, served, last401, keySet>>

\* the route's handler runs: it reads the accessors, asks HasRole about one
\* role and calls the organization-role helpers
Handler ==
    /\ pc[0] = "g_policy"
    /\ gate.chain[gate.pos].mw = "Handler"
    /\ \E role \in AskedRoles, rs \in AskedOrgRoles :
          gate' = [gate EXCEPT !.handled = TRUE, !.asked = role,
                               !.hasRole = HasRole(gate.claims, role),
                               !.view = [UserID |-> UserID(gate.claims),
                                         Email |-> Email(gate.claims),
                                         OrgID |-> OrgID(gate.claims),
                                         orgRoles |-> rs,
                                         HasAnyOrgRole |-> HasAnyOrgRole(gate.claims, rs),
                                         IsOrgAdmin |-> IsOrgAdmin(gate.claims),
                                         IsOrgOwner |-> IsOrgOwner(gate.claims),
                                         CanManageMembers |-> CanManageMembers(gate.claims)]]
    /\ pc' = [pc EXCEPT ![0] = "g_done"]
    /\ UNCHANGED <<now, ticks, endpoint, published, keys, lastFetch, writer, readers, kid,
                   result, gotKey, rfErr, calls, hist, cfg, served, last401, keySet>>

(* ------------------ the gate serving requests in turn ------------------ *)
Init ==
    /\ InitCache
    /\ gate = NoGate
    /\ cfg \in {[IssuerURL |-> Issuer, Audience |-> a, SkipPaths |-> SkipPaths] :
                  a \in Audiences}
    /\ served = 0
    /\ last401 = ""
    /\ keySet = NoKeySet

Next ==
    \/ StartAuthN
    \/ AuthNSkip
    \/ AuthNExtract
    \/ StartValidateToken
    \/ ParseBegin
    \/ GetKeyStep(0)
    \/ ParseEnd
    \/ AuthNFinish
    \/ ValidateTokenFinish
    \/ FinishRequest
    \/ GateTick
    \/ EndpointFail
    \/ EndpointRecover

Spec == Init /\ [][Next]_vars

(* ------------- the cache under concurrent direct callers --------------- *)
InitCacheSpec ==
    /\ \E c0 \in {NewJWKSCache, WarmCache} : InitCacheWith(c0)
    /\ gate = NoGate /\ cfg = NoCfg /\ served = 0 /\ last401 = "" /\ keySet = NoKeySet

NextCache ==
    \/ \E p \in Callers : CallGetKey(p)
    \/ \E p \in Callers : GetKeyStep(p)
    \/ \E p \in Callers : ReturnGetKey(p)
    \/ Tick
    \/ EndpointFail
    \/ EndpointRecover
    \/ Rotate

SpecCache == InitCacheSpec /\ [][NextCache]_vars

(* -------- the cache under concurrent callers and a fair scheduler ------- *)
NextLive ==
    \/ \E p \in Callers : CallGetKey(p)
    \/ \E p \in Callers : GetKeyStep(p)
    \/ \E p \in Callers : ReturnGetKey(p)
    \/ EndpointFail
    \/ EndpointRecover

\* a goroutine that can run does run, the HTTP GET returns (the client has a
\* 10 s timeout), and a goroutine waiting for the lock gets it when it is
\* free again and again
Fairness ==
    \A p \in Callers :
        /\ WF_vars(GetKeyFast(p))
        /\ WF_vars(RefreshCheck(p))
        /\ WF_vars(RefreshFetch(p))
        /\ WF_vars(RefreshStamp(p))
        /\ WF_vars(GetKeyRead2(p))
        /\ SF_vars(GetKeyRLock(p))
        /\ SF_vars(RefreshLock(p))
        /\ SF_vars(GetKeyRLock2(p))

SpecLive == InitCacheSpec /\ [][NextLive]_vars /\ Fairness

(* ------------- routes with policy middleware after AuthN --------------- *)
NextPolicy ==
    \/ StartRoute
    \/ AuthNSkip
    \/ AuthNExtract
    \/ ParseBegin
    \/ GetKeyStep(0)
    \/ ParseEnd
    \/ AuthNFinish
    \/ RequireRoleHandler
    \/ RequireOrgRoleHandler
    \/ RequireTenantHandler
    \/ Handler
    \/ FinishRequest
    \/ EndpointFail
    \/ EndpointRecover

SpecPolicy == Init /\ [][NextPolicy]_vars

(* ========================= claims on the gate ========================== *)
\* the expected audience is the token's aud string or an element of its aud list
AudContains(aud, a) ==
    \/ aud.t = "string" /\ aud.s = a
    \/ aud.t = "list" /\ \E i \in DOMAIN aud.l : aud.l[i] = JStr(a)

\* the token's signature is the provider's, made with the key published as
\* the token's key id
GenuineSignature(tok) ==
    /\ tok.kid.t = "string"
    /\ \E d \in JWKSDocs :
          /\ tok.kid.s \in DOMAIN BuildKeys(d, EmptyKeys)
          /\ BuildKeys(d, EmptyKeys)[tok.kid.s] = tok.signer

\* a Claims string field against the payload: equal to a string claim, empty
\* for an absent one
FieldEq(got, v) == (v.t = "string" => got = v.s) /\ (v.t = "absent" => got = "")

\* a Claims value against the token payload, field by field
ClaimsMatchPayload(c, tok) ==
    /\ FieldEq(c.Sub, tok.sub)
    /\ FieldEq(c.Email, tok.email)
    /\ FieldEq(c.OrgID, tok.org)
    /\ FieldEq(c.OrgDomain, tok.dom)
    /\ tok.roles.t = "object" => c.Roles = tok.roles.k
    /\ tok.roles.t = "absent" => c.Roles = NoMembers

\* C1: with a configured audience, AuthN and ValidateToken accept a token only
\* if its aud claim is that audience or a list containing it.
C1_AudienceEnforced ==
    (cfg.Audience # "" /\ (gate.claims.set \/ gate.vtClaims.set))
        => AudContains(gate.tok.aud, cfg.Audience)

\* C2: the Claims of a validated token equal the payload field by field: subject,
\* email, organization id, organization domain, role keys.
C2_ClaimsEqualPayload ==
    /\ gate.claims.set => ClaimsMatchPayload(gate.claims, gate.tok)
    /\ gate.vtClaims.set => ClaimsMatchPayload(gate.vtClaims, gate.tok)

\* C3: every 401 of AuthN carries the same error message as the 401 before it.
C3_Same401 ==
    (gate.status = 401 /\ last401 # "") => gate.errMsg = last401

\* C4: a token whose declared algorithm is not RS256 is rejected as an unsupported
\* algorithm, and neither GetKey nor a fetch is ever started for it.
C4_NoKeyLookup ==
    (gate.entry # "none" /\ gate.tokenStr = "tok" /\ gate.tok.alg # "RS256")
        => /\ gate.getKeyCalls = 0
           /\ ~hist[0].fetched
           /\ pc[0] \in {"g_parse", "g_done"}
           /\ ~gate.claims.set /\ ~gate.vtClaims.set
           /\ pc[0] = "g_done" => gate.reason = "UnsupportedAlgorithm"

\* C4's case: an unsigned ("none") token was parsed and rejected.
C4_Witness ==
    /\ pc[0] = "g_done" /\ gate.tokenStr = "tok" /\ gate.tok.alg = "none"
    /\ gate.parseCalls = 1 /\ gate.reason = "UnsupportedAlgorithm"

\* C5: on a route outside the skip-list Claims are bound at most once and only for
\* a token whose signature, issuer, expiry and configured audience were verified;
\* a 401 leaves no Claims bound and the next handler not called, and the next
\* handler runs only with Claims bound.
C5_BoundOnlyWhenVerified ==
    /\ gate.bindCount <= 1
    /\ gate.claims.set =>
          /\ gate.entry = "AuthN" /\ ~(gate.path \in cfg.SkipPaths)
          /\ gate.bindCount = 1
          /\ gate.tokenStr = "tok"
          /\ GenuineSignature(gate.tok)
          /\ gate.tok.iss = JStr(cfg.IssuerURL)
          /\ gate.tok.exp.present => gate.validatedAt < gate.tok.exp.t
          /\ cfg.Audience # "" => AudContains(gate.tok.aud, cfg.Audience)
    /\ gate.status = 401 =>
          ~gate.claims.set /\ ~gate.nextCalled /\ gate.bindCount = 0
    /\ (gate.entry = "AuthN" /\ ~(gate.path \in cfg.SkipPaths) /\ gate.nextCalled)
          => gate.claims.set

\* C5's case: a request with a configured audience was validated and its Claims
\* bound, and another was refused.
C5_Witness ==
    /\ pc[0] = "g_done" /\ gate.claims.set /\ gate.bindCount = 1
    /\ cfg.Audience # "" /\ gate.tok.exp.present
    /\ last401 # ""

\* C10: a request on a skip-listed route reaches the next handler with no call
\* of the token extractor, the parser or GetKey, whatever token it carries.
C10_SkipListBypass ==
    (gate.entry = "AuthN" /\ gate.path \in cfg.SkipPaths)
        => /\ gate.extractCalls = 0 /\ gate.parseCalls = 0 /\ gate.getKeyCalls = 0
           /\ pc[0] \in {"g_skip", "g_done"}
           /\ pc[0] = "g_done" => (gate.status = 200 /\ gate.nextCalled)

\* C10's case: a skip-listed request that carries no token was served.
C10_Witness ==
    /\ pc[0] = "g_done" /\ gate.entry = "AuthN" /\ gate.path \in cfg.SkipPaths
    /\ gate.header = NoHeader /\ gate.query = ""
    /\ gate.status = 200 /\ gate.nextCalled

\* C17: the token is the Authorization header's when that has the form
\* "Bearer <token>" and the token query parameter's otherwise; with no token
\* from either the request is answered 401 and neither the parser nor GetKey is
\* called.
C17_TokenSource ==
    (gate.entry = "AuthN" /\ gate.extractCalls = 1) =>
        /\ gate.header.scheme = "Bearer " => gate.tokenStr = gate.header.rest
        /\ gate.header.scheme # "Bearer " => gate.tokenStr = gate.query
        /\ gate.tokenStr = "" =>
              /\ pc[0] = "g_done" /\ gate.status = 401
              /\ gate.parseCalls = 0 /\ gate.getKeyCalls = 0 /\ ~hist[0].fetched
              /\ ~gate.claims.set /\ ~gate.nextCalled

\* C17's case: a request without a Bearer header was validated with the token of
\* its query parameter, after a request without any token was refused.
C17_Witness ==
    /\ gate.entry = "AuthN" /\ gate.header.scheme # "Bearer " /\ gate.query = "tok"
    /\ gate.tokenStr = "tok" /\ gate.claims.set
    /\ last401 = MsgMissing

\* C18: Claims result only from a token that carries an expiry later than the
\* time of its validation.
C18_ExpiryRequired ==
    (gate.claims.set \/ gate.vtClaims.set)
        => (gate.tok.exp.present /\ gate.validatedAt < gate.tok.exp.t)

\* C19: Claims that result from a validation have a non-empty subject, taken from
\* a string sub claim of the payload.
C19_SubjectPresent ==
    /\ gate.claims.set => (gate.tok.sub.t = "string" /\ gate.claims.Sub # "")
    /\ gate.vtClaims.set => (gate.tok.sub.t = "string" /\ gate.vtClaims.Sub # "")

\* C20: once a validation has fetched the key set, a later validation of a token
\* whose key id is in that set, within the TTL of that fetch, fetches nothing.
C20_CachedAcrossValidations ==
    (/\ keySet.known
     /\ gate.entry # "none" /\ gate.tokenStr = "tok"
     /\ gate.tok.kid.t = "string" /\ gate.tok.kid.s \in keySet.kids
     /\ now - keySet.at < CacheTTL)
        => ~hist[0].fetched

(* =================== claims on the policy middleware =================== *)
\* the role names the bound Claims hold: the keys of Roles
HeldRoles(cl) == IF cl.set /\ ~cl.RolesNil THEN DOMAIN cl.Roles ELSE {}

\* the role names a policy asks for
WantedRoles(m) == {m.roles[i] : i \in DOMAIN m.roles}

\* C11: RequireRole lets the request proceed iff HasAnyRole holds for the bound
\* Claims and the given roles; otherwise it aborts with 403, a message that lists
\* the required roles in the order given, and the route's handler is not run.
C11_RequireRoleDecision ==
    gate.policy.mw = "RequireRole" =>
        /\ gate.allowed <=> HasAnyRole(gate.claims, gate.policy.roles)
        /\ gate.allowed => gate.status # 403
        /\ ~gate.allowed =>
              /\ gate.status = 403 /\ ~gate.handled /\ pc[0] = "g_done"
              /\ gate.policy.roles = <<"admin">> =>
                    gate.errMsg = "insufficient permissions -- requires one of: admin"
              /\ gate.policy.roles = <<"editor", "admin">> =>
                    gate.errMsg = "insufficient permissions -- requires one of: editor, admin"
              /\ gate.policy.roles = <<"admin", "editor">> =>
                    gate.errMsg = "insufficient permissions -- requires one of: admin, editor"
              /\ gate.policy.roles = <<"viewer", "admin">> =>
                    gate.errMsg = "insufficient permissions -- requires one of: viewer, admin"
              /\ gate.policy.roles = << >> =>
                    gate.errMsg = "insufficient permissions -- requires one of: "

\* C11's case: a valid token whose role set is empty met RequireRole("admin").
C11_Witness ==
    /\ pc[0] = "g_done" /\ gate.policy = RequireRole(<<"admin">>)
    /\ gate.claims.set /\ ~gate.claims.RolesNil /\ gate.claims.Roles = NoMembers
    /\ gate.status = 403 /\ ~gate.allowed

\* C12: RequireTenant denies (403, the no-organization message, handler not run)
\* iff the request's organization id is "", which includes a request without
\* Claims; for every other organization id the request proceeds.
C12_RequireTenantDecision ==
    gate.policy.mw = "RequireTenant" =>
        /\ ~gate.allowed <=> (~gate.claims.set \/ gate.claims.OrgID = "")
        /\ gate.allowed => gate.status # 403
        /\ ~gate.allowed =>
              /\ gate.status = 403 /\ ~gate.handled /\ pc[0] = "g_done"
              /\ gate.errMsg = "no organization context -- user must belong to an organization"

\* C12's case: a request without Claims was denied by RequireTenant.
C12_Witness ==
    /\ pc[0] = "g_done" /\ gate.policy.mw = "RequireTenant"
    /\ ~gate.claims.set /\ gate.status = 403 /\ ~gate.allowed

\* C13: a request proceeds past RequireTenant(tenantID) only if the organization
\* id of its Claims is tenantID.
C13_TenantMatch ==
    (gate.policy.mw = "RequireTenant" /\ gate.policy.tenantID # "" /\ gate.allowed)
        => (gate.claims.set /\ gate.claims.OrgID = gate.policy.tenantID)

\* C14: HasRole is true iff the role is a key of the bound Claims' Roles, whatever
\* is stored under the key, and false when no Claims are bound or Roles is absent.
C14_HasRoleIffKey ==
    gate.handled =>
        /\ gate.hasRole <=> gate.asked \in HeldRoles(gate.claims)
        /\ (~gate.claims.set \/ gate.tok.roles.t # "object") => ~gate.hasRole

\* C14's case: the handler asked about a role whose grant details are null.
C14_Witness ==
    /\ gate.handled /\ gate.hasRole
    /\ gate.claims.Roles[gate.asked] = "null"

\* C15: HasAnyRole is true iff the requested roles and the keys of Roles
\* intersect, whatever the order or repetition of the requested roles; it is
\* false for an empty list.
C15_HasAnyRoleIffIntersect ==
    gate.policy.mw \in {"RequireRole", "RequireOrgRole"} =>
        /\ gate.allowed <=> (WantedRoles(gate.policy) \cap HeldRoles(gate.claims) # {})
        /\ gate.policy.roles = << >> => ~gate.allowed

\* C15's case: the Claims hold the second of two requested roles and not the first.
C15_Witness ==
    /\ gate.policy.mw = "RequireRole" /\ Len(gate.policy.roles) = 2
    /\ gate.allowed
    /\ ~(gate.policy.roles[1] \in HeldRoles(gate.claims))
    /\ gate.policy.roles[2] \in HeldRoles(gate.claims)

\* C16: a 403 is answered only to a request whose token was validated and whose
\* Claims were bound before.
C16_DenialAfterAuthentication ==
    gate.status = 403 =>
        (gate.parseCalls = 1 /\ gate.bindCount = 1 /\ gate.claims.set)

(* ======================= claims on the key cache ======================= *)

\* C6: among concurrent callers of GetKey for the same stale key id the endpoint
\* is fetched at most once, also when the fetch fails: a caller that was inside
\* GetKey when a peer started the HTTP GET for that key id starts no GET of its
\* own within the following 30 s.
C6_FetchAtMostOnce == \A p \in Procs : ~hist[p].refetched

\* C7: during an outage that lasts the whole call, GetKey returns a key that the
\* retained mapping held when the call began, whatever the mapping's age.
C7_StaleKeyServed ==
    \A p \in Procs :
        (pc[p] = "gk_ret" /\ hist[p].heldAtCall /\ ~hist[p].sawUp) => result[p] = "Key"

\* C8: FetchFailed is returned only to a caller whose own call performed the HTTP
\* GET that failed.
C8_FetchFailedOnlyToFetcher ==
    \A p \in Procs : result[p] = "FetchFailed" => (hist[p].fetched /\ hist[p].fetchErr)

\* C8's case: one caller got FetchFailed from its own fetch while a concurrent
\* caller of the same key id, who saw that fetch start, got another outcome.
C8_Witness ==
    \E p, q \in Procs :
        /\ p # q
        /\ result[p] = "FetchFailed"
        /\ pc[q] = "gk_ret" /\ hist[q].peerFetchAt >= 0
        /\ result[q] \in {"Key", "NotFound"}

\* C9 as stated: a key id absent from a mapping younger than the TTL yields NotFound.
C9_NotFoundWhenFresh ==
    \A p \in Procs :
        (pc[p] = "gk_ret" /\ ~hist[p].heldAtCall /\ now - hist[p].lfAtCall < CacheTTL)
            => result[p] = "NotFound"

\* C9 amended: a key id absent from a mapping fetched less than 30 s ago yields
\* NotFound, and the call performs no fetch.
C9_NotFoundWhenRecent ==
    \A p \in Procs :
        (pc[p] = "gk_ret" /\ ~hist[p].heldAtCall
            /\ now - hist[p].lfAtCall < MinRefreshInterval)
            => (result[p] = "NotFound" /\ ~hist[p].fetched)

\* C9's case: a call for an absent key id returned within 30 s of a real fetch.
C9_Witness ==
    \E p \in Procs :
        /\ pc[p] = "gk_ret" /\ ~hist[p].heldAtCall
        /\ hist[p].lfAtCall > 0
        /\ now - hist[p].lfAtCall < MinRefreshInterval
        /\ result[p] = "NotFound"

\* callers of cache c inside refresh's exclusive section
InRefresh(c) == {p \in Procs : CacheOf(p) = c /\ pc[p] \in {"rf_check", "rf_fetch", "rf_stamp"}}

\* C21: at most one caller of a cache is inside the section of refresh that
\* performs the HTTP GET and replaces the mapping.
C21_OneFetchInFlight == \A c \in CacheIds : Cardinality(InRefresh(c)) <= 1

\* C21's case: one caller's HTTP GET is in flight while another caller waits for
\* the exclusive lock.
C21_Witness ==
    \E p, q \in Callers : p # q /\ pc[p] = "rf_fetch" /\ pc[q] = "rf_lock"

\* the mappings refresh builds from complete documents, and the initial one
CompleteKeySets == {EmptyKeys} \cup {BuildKeys(d, EmptyKeys) : d \in JWKSDocs}

\* C22: the mapping is always a complete key set, and while a refresh has stored
\* the new mapping but not yet the new timestamp it holds the exclusive lock and
\* no reader holds the read lock; readers and the writer exclude one another.
C22_AtomicSwap ==
    \A c \in CacheIds :
        /\ keys[c] \in CompleteKeySets
        /\ readers[c] # {} => writer[c] = {}
        /\ \A p \in Procs :
              (CacheOf(p) = c /\ pc[p] = "rf_stamp") => (writer[c] = {p} /\ readers[c] = {})

\* C22's case: a refresh has stored a new mapping, its timestamp is still the
\* old one, and a reader is waiting for the read lock.
C22_Witness ==
    \E p, q \in Callers :
        /\ pc[p] = "rf_stamp" /\ pc[q] = "gk_rlock"
        /\ keys["mw"] # EmptyKeys /\ lastFetch["mw"] = 0

\* C23: a refresh whose HTTP GET fails (transport error, non-200 status,
\* undecodable body) leaves the mapping and the timestamp of every cache as they
\* were.
C23_FailedRefreshKeepsCache ==
    [][\A p \in Procs :
          (pc[p] = "rf_fetch" /\ rfErr'[p] \in FetchErrors)
              => (keys' = keys /\ lastFetch' = lastFetch)]_vars

\* C23's case: a refresh failed on an undecodable body while the cache held keys.
C23_Witness ==
    \E p \in Callers :
        /\ pc[p] = "gk_ret" /\ result[p] = "FetchFailed" /\ rfErr[p] = "decode"
        /\ keys["mw"] # EmptyKeys /\ lastFetch["mw"] > 0

\* C24: a GetKey call for a key id that the mapping held, fresh, when the call
\* began never waits for the read lock while another caller's HTTP GET is in
\* flight.
C24_FreshReaderNotBlocked ==
    \A p \in Procs :
        (/\ pc[p] = "gk_rlock"
         /\ hist[p].heldAtCall
         /\ now - hist[p].lfAtCall < CacheTTL)
            => ~(\E q \in Procs \ {p} : CacheOf(q) = CacheOf(p) /\ pc[q] = "rf_fetch")

\* the key ids of a document's entries that are RSA, for signatures, and decode
UsableKids(d) ==
    {d[i].Kid : i \in {j \in DOMAIN d :
                        /\ d[j].Kty = "RSA" /\ d[j].Use = "sig"
                        /\ B64Decode(d[j].N) # <<0 - 1>> /\ B64Decode(d[j].E) # <<0 - 1>>}}

\* C25: the mapping a successful refresh stores holds exactly the key ids of the
\* response's usable entries: no other entry, and no key of the previous mapping
\* that the response lacks.
C25_ExactlyUsableKeys ==
    [][\A p \in Procs :
          (pc[p] = "rf_fetch" /\ pc'[p] = "rf_stamp")
              => DOMAIN keys'[CacheOf(p)] = UsableKids(published)]_vars

\* C25's case: a refresh got a response without a usable entry and removed the
\* key the caller asked for, which the previous mapping held.
C25_Witness ==
    \E p \in Callers :
        /\ pc[p] = "rf_stamp" /\ hist[p].heldAtCall
        /\ keys["mw"] = EmptyKeys

\* C26: refresh starts no HTTP GET while the last successful fetch is under 30 s
\* old and goes on to the lookup, which answers NotFound for an unknown key id;
\* the timestamps of two successful fetches are at least 30 s apart.
C26_RateLimited ==
    [][/\ lastFetch'["mw"] # lastFetch["mw"]
            => lastFetch'["mw"] - lastFetch["mw"] >= MinRefreshInterval
       /\ \A p \in Procs :
            /\ (pc[p] = "rf_check" /\ pc'[p] # "rf_check"
                    /\ now - lastFetch[CacheOf(p)] < MinRefreshInterval)
                  => (pc'[p] = "gk_rlock2" /\ ~hist'[p].fetched)
            /\ (pc[p] = "gk_read2" /\ pc'[p] = "gk_ret" /\ ~hist[p].fetched
                    /\ ~(kid[p] \in DOMAIN keys[CacheOf(p)]))
                  => result'[p] = "NotFound"]_vars

\* C26's case: 29 s after a fetch made by an earlier call, a call for an unknown
\* key id returned NotFound without a fetch.
C26_Witness ==
    \E p \in Callers :
        /\ pc[p] = "gk_ret" /\ result[p] = "NotFound"
        /\ ~hist[p].heldAtCall /\ ~hist[p].fetched
        /\ hist[p].lfAtCall >= CacheTTL
        /\ now - hist[p].lfAtCall = MinRefreshInterval - 1

\* the goroutine is inside GetKey
InCall(p) == ~(pc[p] \in {"idle", "gk_ret"})

\* C27: no caller asks for the exclusive lock while it holds the read lock, a
\* caller outside GetKey holds no lock, and every GetKey call returns.
C27_GetKeyReturns ==
    /\ [](\A p \in Callers : \A c \in CacheIds :
            /\ pc[p] \in {"rf_lock", "rf_check", "rf_fetch", "rf_stamp"}
                  => ~(p \in readers[c])
            /\ ~InCall(p) => (~(p \in readers[c]) /\ ~(p \in writer[c])))
    /\ \A p \in Callers : InCall(p) ~> pc[p] = "gk_ret"

\* C27's case: two concurrent calls returned, one through refresh's error path.
C27_Witness ==
    \E p, q \in Callers :
        /\ p # q /\ pc[p] = "gk_ret" /\ pc[q] = "gk_ret"
        /\ result[p] = "FetchFailed"
        /\ hist[q].peerFetchAt >= 0

(* ============ claims on skip-listed routes and the extractor ============ *)
\* C28: on a skip-listed route no Claims are bound, whatever token the request
\* carries: the accessors give "", HasRole is false, and RequireRole,
\* RequireOrgRole and RequireTenant answer 403 without running the handler.
C28_SkipListedUnauthenticated ==
    (gate.entry = "AuthN" /\ gate.path \in cfg.SkipPaths) =>
        /\ ~gate.claims.set /\ gate.bindCount = 0
        /\ gate.handled =>
              /\ gate.view.UserID = "" /\ gate.view.OrgID = "" /\ gate.view.Email = ""
              /\ ~gate.hasRole
        /\ gate.policy.mw \in {"RequireRole", "RequireOrgRole", "RequireTenant"} =>
              (~gate.allowed /\ gate.status = 403 /\ ~gate.handled)

\* C28's case: a request with a valid token on a skip-listed route was denied by
\* RequireTenant.
C28_Witness ==
    /\ pc[0] = "g_done" /\ gate.path \in cfg.SkipPaths
    /\ gate.header = [scheme |-> "Bearer ", rest |-> "tok"] /\ gate.tok = BaseToken(now)
    /\ gate.policy.mw = "RequireTenant" /\ gate.status = 403

\* C29: with a header that begins with "Bearer " and a token query parameter the
\* header's token is used; "Bearer " with an empty token gives the 401 for a
\* missing token even when the query parameter holds a valid token; a header
\* without the prefix falls back to the query parameter.
C29_HeaderWins ==
    (gate.entry = "AuthN" /\ gate.extractCalls = 1 /\ gate.query # "") =>
        /\ gate.header.scheme = "Bearer " =>
              /\ gate.tokenStr = gate.header.rest
              /\ gate.header.rest = "" =>
                    /\ gate.status = 401 /\ gate.errMsg = MsgMissing
                    /\ gate.parseCalls = 0 /\ ~gate.claims.set
        /\ gate.header.scheme # "Bearer " =>
              /\ gate.tokenStr = gate.query
              /\ pc[0] = "g_done" => gate.parseCalls = 1

\* C29's case: "Bearer " with an empty token and a valid token in the query
\* parameter was answered 401.
C29_Witness ==
    /\ pc[0] = "g_done" /\ gate.entry = "AuthN"
    /\ gate.header = [scheme |-> "Bearer ", rest |-> ""] /\ gate.query = "tok"
    /\ gate.tok = BaseToken(now) /\ gate.status = 401

\* C30: RequireOrgRole decides as RequireRole does on the role names and gives
\* the same 403 message; HasAnyOrgRole agrees with HasAnyRole, IsOrgOwner implies
\* IsOrgAdmin, and CanManageMembers equals IsOrgAdmin.
C30_OrgRoleEquivalence ==
    /\ gate.policy.mw = "RequireOrgRole" =>
          /\ gate.allowed <=> HasAnyRole(gate.claims, gate.policy.roles)
          /\ ~gate.allowed =>
                /\ gate.status = 403
                /\ gate.errMsg = MsgInsufficient(JoinRoles(gate.policy.roles))
    /\ gate.handled =>
          /\ gate.view.HasAnyOrgRole <=> HasAnyRole(gate.claims, gate.view.orgRoles)
          /\ gate.view.IsOrgOwner => gate.view.IsOrgAdmin
          /\ gate.view.CanManageMembers <=> gate.view.IsOrgAdmin

\* C30's case: RequireOrgRole with three roles denied an authenticated request.
C30_Witness ==
    /\ pc[0] = "g_done" /\ gate.policy.mw = "RequireOrgRole"
    /\ Len(gate.policy.roles) = 3 /\ gate.claims.set /\ gate.status = 403
====
